---- MODULE Spec2Model ----
(***************************************************************************)
(* Model of calendar-sync: the debounce coalescer (lib/debounce-timer),    *)
(* the reconciliation engine (lib/calendar-sync.ts), the webhook channel   *)
(* manager (lib/webhook-manager) and the retry policy                      *)
(* (lib/error-handler.ts).  Each component has its own specification; the  *)
(* variables of the components a specification does not exercise stay at   *)
(* their initial values.                                                   *)
(***************************************************************************)
EXTENDS Integers, Sequences, FiniteSets, TLC

(***************************************************************************)
(* Bounds of the model.                                                    *)
(***************************************************************************)
\* number of webhook notifications delivered to the coalescer for one calendar
MaxNotifs == 7
\* the same, in the specification with fairness
MaxFairNotifs == 4
\* number of edits made to the source calendars
MaxEdits == 2
\* number of syncSingleCalendar runs started
MaxRuns == 2
\* last time slot of the calendars (an hour for a timed event, a day for an
\* all-day one)
MaxSlot == 3
\* number of channels the provider creates for this system
MaxChannels == 2
\* longest lifetime, in hours, the provider gives a channel
MaxTtl == 2
\* largest maxAttempts option passed to withRetry
MaxTries == 6
\* last instant at which createSyncEvent is called
MaxInstant == 1
\* requests delivered to the webhook endpoint
MaxDeliveries == 2
\* events.list requests followed within one call of getCalendarEvents
MaxLists == 5

(***************************************************************************)
(* Program constants.  The debounce clock counts minutes: the source       *)
(* gives both delays as a number of minutes times 60 * 1000 ms.            *)
(***************************************************************************)
DEBOUNCE_DELAY == 5
MAX_WAIT_TIME == 30
\* Map.get of a missing key: no first-webhook time recorded
NoTime == -1
\* Map.has(calendarId) is false: no timer handle recorded
NoTimer == 0

\* getSourceCalendars(): the two configured source calendars
SourceCalendars == <<"private", "work">>
Calendars == {SourceCalendars[i] : i \in 1..Len(SourceCalendars)}

\* ids of the events of a source calendar
EventIds == {"e1"}
\* extendedProperties.private.sourceCalendarId of an event nobody synced
NoCal == "none"

Min(a, b) == IF a <= b THEN a ELSE b

(***************************************************************************)
(* Time.  The coalescer only ever subtracts two readings of Date.now(), so *)
(* the model keeps every recorded instant t as its age now - t, and every  *)
(* timeout as the time left until it is due; Tick lets one minute pass.    *)
(* An age stops growing at the first value the code cannot tell from a     *)
(* larger one.                                                             *)
(***************************************************************************)
VARIABLES
  \* ---- debounce coalescer ----
  timers,            \* the event loop's scheduled timeouts: [cal, id, left]
  syncTimers,        \* Map calendarId -> timeout handle (NoTimer: no entry)
  firstWebhookTime,  \* Map calendarId -> age of the first webhook (NoTime: no entry)
  inFlight,          \* per calendar, executeSync calls awaiting syncSingleCalendar
  quota,             \* per calendar, the notifications the behaviour may deliver
  notifs,            \* per calendar, number of debouncedSync calls so far
  \* history of the coalescer
  burstN,            \* notifications since the one that created the DebounceState
  burstRuns,         \* executeSync calls since that notification (counted up to 2)
  everLate,          \* some notification arrived after its pending timer had fired
  burstStart,        \* age of the earliest notification not yet followed by the
                     \* start of a run (NoTime: none)
  settled,           \* how the run that settled last ended: "resolved", "rejected"
  \* ---- reconciliation engine ----
  source,            \* provider: source calendar -> event id -> event (or absent)
  target,            \* provider: the events of the target calendar
  edits,             \* number of edits made to the source calendars
  runs,              \* number of syncSingleCalendar runs started
  run,               \* per calendar, the syncSingleCalendar call in progress
  chk,               \* per calendar, the last duplicate check of its run
  prev,              \* the run started last: its calendar, how it ended, and
                     \* whether the source changed since it fetched
  eventMappings,     \* storage: the event mappings [cal, event, id]
  \* ---- webhook channel manager ----
  stored,            \* storage: calendarId -> WebhookChannel [id, left] (or none)
  live,              \* provider: the channels not stopped and not expired
  nextChan,          \* number of channels the provider has created
  hookLast,          \* per calendar, the manager's last call since the last hour
  \* ---- retry policy: one call of withRetry ----
  maxAttempts,       \* options.maxAttempts
  retryCondition,    \* options.retryCondition: "default" or a caller's predicate
  rpc,               \* where the call stands
  attempt,           \* the loop variable
  lastError,         \* the error caught last (NoError: undefined)
  calls,             \* number of times operation() was invoked
  sleeps,            \* the delays slept, in order
  onlyCode,          \* the code all failures so far had ("mixed" if they differ)
  \* ---- createSyncEvent applied to two source events ----
  srcA,              \* a source event as getCalendarEvents hands it on
  srcB,              \* srcA with some of its fields changed
  metaCal,           \* the source calendar the two events are synced for
  instant,           \* new Date()
  built,             \* "A", "B" -> what createSyncEvent returned (or NotBuilt)
  \* ---- webhook endpoint ----
  inbox,             \* the POST requests on their way to the endpoint, in order
  hres,              \* what handleWebhook answered last, and what it called
  \* ---- getCalendarEvents: one call ----
  fpc,               \* where the call stands
  fcursor,           \* the syncToken argument of the invocation that is running
  flog               \* the events.list requests made and their answers, in order

debounceVars == <<timers, syncTimers, firstWebhookTime, inFlight, quota, notifs,
                  burstN, burstRuns, everLate, burstStart, settled>>

syncVars == <<source, target, edits, runs, run, chk, prev, eventMappings>>

hookVars == <<stored, live, nextChan, hookLast>>

retryVars == <<maxAttempts, retryCondition, rpc, attempt, lastError, calls,
               sleeps, onlyCode>>

buildVars == <<srcA, srcB, metaCal, instant, built>>

handlerVars == <<inbox, hres>>

fetchVars == <<fpc, fcursor, flog>>

vars == <<debounceVars, syncVars, hookVars, retryVars, buildVars, handlerVars,
          fetchVars>>

(***************************************************************************)
(* Debounce coalescer                                                      *)
(***************************************************************************)
DebounceIdle ==
  /\ timers = {}
  /\ syncTimers = [c \in Calendars |-> NoTimer]
  /\ firstWebhookTime = [c \in Calendars |-> NoTime]
  /\ inFlight = [c \in Calendars |-> 0]
  /\ notifs = [c \in Calendars |-> 0]
  /\ burstN = [c \in Calendars |-> 0]
  /\ burstRuns = [c \in Calendars |-> 0]
  /\ everLate = [c \in Calendars |-> FALSE]
  /\ burstStart = [c \in Calendars |-> NoTime]
  /\ settled = "none"

\* the timeout the handle recorded for c refers to, if still scheduled
Pending(c) == {t \in timers : t.cal = c /\ t.id = syncTimers[c]}

\* clearTimeout(syncTimers.get(calendarId)): a no-op on a fired or cleared handle
ClearTimeout(c) == timers \ Pending(c)

\* the timeouts left scheduled once debouncedSync has cancelled the old one
CancelledNothing(c) == timers
Cancelled(c) == IF syncTimers[c] # NoTimer THEN ClearTimeout(c) ELSE timers

\* (the time waited so far is left out of account)
WaitedTimeZero(c) == 0
\* waitedTime = now - (firstWebhookTime.get(calendarId) || now), read after the
\* has/else branch of debouncedSync has run
WaitedTime(c) ==
  IF syncTimers[c] # NoTimer /\ firstWebhookTime[c] # NoTime
  THEN firstWebhookTime[c] ELSE 0

\* remainingWait = Math.min(DEBOUNCE_DELAY, MAX_WAIT_TIME - waitedTime)
RemainingWaitNoCeiling(c) == DEBOUNCE_DELAY
RemainingWait(c) == Min(DEBOUNCE_DELAY, MAX_WAIT_TIME - WaitedTime(c))

\* the handle setTimeout returns: handles are only compared for identity, so a
\* fresh one is any value no scheduled timeout of the calendar carries
NewHandle(c) ==
  CHOOSE n \in 1..(Cardinality(timers) + 1) :
    \A t \in Cancelled(c) : t.cal = c => t.id # n

\* (executeSync is awaited to its end by the caller)
ExecuteSyncAwaited(c) ==
  /\ inFlight' = inFlight
  /\ burstStart' = [burstStart EXCEPT ![c] = NoTime]
\* executeSync up to its await: syncSingleCalendar is invoked
ExecuteSyncStart(c) ==
  /\ inFlight' = [inFlight EXCEPT ![c] = @ + 1]
  /\ burstStart' = [burstStart EXCEPT ![c] = NoTime]

\* (every notification restarts the clock of the burst)
FirstTimeReset(c) == [firstWebhookTime EXCEPT ![c] = 0]
\* if (syncTimers.has(calendarId)) {...} else firstWebhookTime.set(calendarId, now)
FirstTime(c) ==
  IF syncTimers[c] # NoTimer THEN firstWebhookTime
  ELSE [firstWebhookTime EXCEPT ![c] = 0]

\* debouncedSync(calendarId)
DebouncedSync(c) ==
  /\ notifs[c] < quota[c]
  /\ notifs' = [notifs EXCEPT ![c] = @ + 1]
  /\ UNCHANGED <<quota, settled>>
  /\ LET has == syncTimers[c] # NoTimer
         sofar == IF has THEN burstRuns[c] ELSE 0
     IN /\ firstWebhookTime' = FirstTime(c)
        /\ everLate' = [everLate EXCEPT ![c] = @ \/ (has /\ Pending(c) = {})]
        /\ burstN' = [burstN EXCEPT ![c] = IF has THEN @ + 1 ELSE 1]
        /\ IF WaitedTime(c) >= MAX_WAIT_TIME
           THEN \* executeSync(calendarId); return
                /\ timers' = Cancelled(c)
                /\ ExecuteSyncStart(c)
                /\ burstRuns' = [burstRuns EXCEPT ![c] = Min(sofar + 1, 2)]
                /\ UNCHANGED syncTimers
           ELSE \* setTimeout(..., remainingWait); syncTimers.set(calendarId, timer)
                /\ timers' = Cancelled(c) \cup
                     {[cal |-> c, id |-> NewHandle(c), left |-> RemainingWait(c)]}
                /\ syncTimers' = [syncTimers EXCEPT ![c] = NewHandle(c)]
                /\ burstRuns' = [burstRuns EXCEPT ![c] = sofar]
                /\ burstStart' = [burstStart EXCEPT ![c] =
                                    IF @ = NoTime THEN 0 ELSE @]
                /\ UNCHANGED inFlight

\* the timeout callback: executeSync(calendarId, ...)
TimerFire(c) ==
  \E t \in timers :
    /\ t.cal = c
    /\ t.left = 0
    /\ timers' = timers \ {t}
    /\ ExecuteSyncStart(c)
    /\ burstRuns' = [burstRuns EXCEPT ![c] = Min(@ + 1, 2)]
    /\ UNCHANGED <<syncTimers, firstWebhookTime, quota, notifs, burstN, everLate,
                   settled>>

\* (the clean-up sits at the end of the try block, not in a finally)
\* (the finally clears the whole map: map.clear())
DeletedAll(m, c, none, threw) == [x \in DOMAIN m |-> none]
DeletedOnSuccess(m, c, none, threw) == IF threw THEN m ELSE [m EXCEPT ![c] = none]
\* finally { map.delete(calendarId) }
Deleted(m, c, none, threw) == [m EXCEPT ![c] = none]

\* (the finally also clears the timeout whose handle it deletes)
LeftScheduledNone(c) == ClearTimeout(c)
\* the timeouts scheduled after the finally: it deletes the map entries and
\* calls no clearTimeout
LeftScheduled(c) == timers

\* the await of syncSingleCalendar settles: it resolved, or it rejected and
\* the catch logged the error; then the finally clause
ExecuteSyncSettled(c, threw) ==
  /\ inFlight[c] > 0
  /\ inFlight' = [inFlight EXCEPT ![c] = @ - 1]
  /\ syncTimers' = Deleted(syncTimers, c, NoTimer, threw)
  /\ firstWebhookTime' = Deleted(firstWebhookTime, c, NoTime, threw)
  /\ settled' = IF threw THEN "rejected" ELSE "resolved"
  /\ timers' = LeftScheduled(c)
  /\ UNCHANGED <<quota, notifs, burstN, burstRuns, everLate, burstStart>>

ExecuteSyncFinally(c) == \E threw \in BOOLEAN : ExecuteSyncSettled(c, threw)

\* an age one minute later
Older(a, cap) == IF a = NoTime THEN NoTime ELSE Min(a + 1, cap)

\* one minute passes; a due timeout fires before the clock moves on
Tick ==
  /\ \A t \in timers : t.left > 0
  /\ timers' = {[t EXCEPT !.left = @ - 1] : t \in timers}
  /\ firstWebhookTime' =
       [c \in Calendars |-> Older(firstWebhookTime[c], MAX_WAIT_TIME)]
  /\ burstStart' = [c \in Calendars |-> Older(burstStart[c], MAX_WAIT_TIME + 1)]
  /\ UNCHANGED <<syncTimers, inFlight, quota, notifs, burstN, burstRuns, everLate,
                 settled>>

(***************************************************************************)
(* Reconciliation engine (lib/calendar-sync.ts).  The provider's calendars *)
(* are part of the state: the source calendars are edited by their owner,  *)
(* the target calendar by syncSingleCalendar.  Every provider call is a    *)
(* step of its own (the code awaits it) and may fail.                      *)
(***************************************************************************)
Slots == 1..MaxSlot
Absent == [kind |-> "absent"]

SyncResult0 == [created |-> 0, updated |-> 0, deleted |-> 0, errors |-> <<>>]
\* pc: where the call stands; history of the run: clean, prevOk, listFailed;
\* fetchCalls, fetchError: the listings of the source asked for and the error
\* of the last one; fetched: the events it returned; skipped: the events the
\* loop passed over; before: the size of the target when the run started
IdleRun == [pc |-> "idle", queue |-> {}, cur |-> Absent, res |-> SyncResult0,
            clean |-> FALSE, prevOk |-> FALSE, listFailed |-> FALSE,
            fetchCalls |-> 0, fetchError |-> "none", fetched |-> 0,
            skipped |-> 0, before |-> 0]
NoCheck == [covered |-> FALSE, listOk |-> FALSE, dup |-> FALSE, strict |-> FALSE]

NoRun == [cal |-> NoCal, outcome |-> "none", touched |-> FALSE]

SyncIdle ==
  /\ source = [c \in Calendars |-> [e \in EventIds |-> Absent]]
  /\ target = {}
  /\ edits = 0
  /\ runs = 0
  /\ run = [c \in Calendars |-> IdleRun]
  /\ chk = [c \in Calendars |-> NoCheck]
  /\ prev = NoRun
  /\ eventMappings = {}

\* ---- the owner of a source calendar edits it ----
Edit(c, e, ev) ==
  /\ edits < MaxEdits
  /\ edits' = edits + 1
  /\ source' = [source EXCEPT ![c][e] = ev]
  /\ prev' = IF prev.cal = c THEN [prev EXCEPT !.touched = TRUE] ELSE prev
  /\ UNCHANGED <<target, runs, run, chk, eventMappings>>

\* a new event: timed, all-day, or (kind "notime") without start time
AddEvent(c, e) ==
  /\ source[c][e] = Absent
  /\ \E k \in {"timed", "allday", "notime"}, s \in Slots, f \in Slots :
       /\ s < f
       /\ k = "notime" => (s = 1 /\ f = 2)
       /\ Edit(c, e, [kind |-> k, start |-> s, end |-> f, self |-> "none",
                      summary |-> "meeting"])

\* the event is moved to another window
MoveEvent(c, e) ==
  /\ source[c][e].kind \in {"timed", "allday"}
  /\ \E s \in Slots, f \in Slots :
       /\ s < f
       /\ <<s, f>> # <<source[c][e].start, source[c][e].end>>
       /\ Edit(c, e, [source[c][e] EXCEPT !.start = s, !.end = f])

\* the owner answers the invitation: attendees[self].responseStatus
Respond(c, e) ==
  /\ source[c][e] # Absent
  /\ \E r \in {"accepted", "declined"} :
       /\ r # source[c][e].self
       /\ Edit(c, e, [source[c][e] EXCEPT !.self = r])

\* the event is renamed to the title the reconcile loop tests for
Rename(c, e) ==
  /\ source[c][e] # Absent
  /\ source[c][e].summary # "cancelled"
  /\ Edit(c, e, [source[c][e] EXCEPT !.summary = "cancelled"])

\* the event is deleted
RemoveEvent(c, e) ==
  /\ source[c][e] # Absent
  /\ Edit(c, e, Absent)

\* ---- getCalendarEvents ----
\* the filter of the fetch: events with a start, not declined by the owner
KeepsAll(ev) == ev.kind # "notime"
\* (the filter of the earlier version in lib/google-auth.ts keeps declined events)
Keeps(ev) ==
  /\ ev.kind # "notime"
  /\ ~(ev.self = "declined")

\* response.data.items after .filter().map(); self is kept for the history only
Fetched(c) ==
  {[id |-> e, kind |-> source[c][e].kind, start |-> source[c][e].start,
    end |-> source[c][e].end, summary |-> source[c][e].summary,
    self |-> source[c][e].self] :
      e \in {x \in DOMAIN source[c] : source[c][x] # Absent /\ Keeps(source[c][x])}}

\* orderBy: 'startTime': the events a for-of loop over q may take next
NextOf(q) == {ev \in q : \A o \in q : ev.start <= o.start}

\* ---- checkForDuplicateEvent ----
\* calendar.events.list({timeMin, timeMax}) on the target: the events that end
\* after timeMin and start before timeMax; for an all-day event timeMax is the
\* end of the day of its end date
Listed(ev) ==
  {p \in target :
     /\ p.end > ev.start
     /\ IF ev.kind = "timed" THEN p.start < ev.end ELSE p.start <= ev.end}

\* (containment for every kind of event)
ContainsAnyKind(p, ev) ==
  /\ p.srcCal # NoCal
  /\ p.start <= ev.start /\ p.end >= ev.end
\* (the test does not look at extendedProperties)
ContainsAnyOrigin(p, ev) ==
  \/ ev.kind = "timed" /\ p.kind = "timed"
     /\ p.start <= ev.start /\ p.end >= ev.end
  \/ ev.kind = "allday" /\ p.kind = "allday"
     /\ p.start = ev.start /\ p.end = ev.end
\* the test inside the loop over existingEvents
ContainsExact(p, ev) ==
  /\ p.srcCal # NoCal
  /\ p.kind = ev.kind
  /\ p.start = ev.start /\ p.end = ev.end
Contains(p, ev) ==
  /\ p.srcCal # NoCal
  /\ \/ ev.kind = "timed" /\ p.kind = "timed"
        /\ p.start <= ev.start /\ p.end >= ev.end
     \/ ev.kind = "allday" /\ p.kind = "allday"
        /\ p.start = ev.start /\ p.end = ev.end

\* (createEventInTarget without the check)
NoDuplicateCheck(ev, listOk) == FALSE
\* (a failed listing counts as a duplicate: the check fails closed)
CheckFailsClosed(ev, listOk) ==
  ~listOk \/ \E p \in Listed(ev) : Contains(p, ev)
\* the value checkForDuplicateEvent returns; a failed listing is caught
CheckForDuplicateEvent(ev, listOk) ==
  listOk /\ \E p \in Listed(ev) : Contains(p, ev)

\* the target calendar holds a placeholder with provenance whose window
\* contains that of the timed event ev
Covered(ev) ==
  /\ ev.kind = "timed"
  /\ \E p \in target : /\ p.srcCal # NoCal /\ p.kind = "timed"
                       /\ p.start <= ev.start /\ p.end >= ev.end
StrictlyCovered(ev) ==
  /\ ev.kind = "timed"
  /\ \E p \in target : /\ p.srcCal # NoCal /\ p.kind = "timed"
                       /\ p.start <= ev.start /\ p.end >= ev.end
                       /\ <<p.start, p.end>> # <<ev.start, ev.end>>

\* ---- createSyncEvent + calendar.events.insert ----
\* response.data.id: an id no event of the target carries
NewEventId == Cardinality(target) + 1
Placeholder(c, ev) ==
  [id |-> NewEventId, kind |-> ev.kind, start |-> ev.start, end |-> ev.end,
   summary |-> "busy", srcCal |-> c, srcEvent |-> ev.id, declined |-> ev.self = "declined"]

\* ---- syncSingleCalendar ----
\* what calendar.events.list of the source answers: the events, or an error
\* with this status (the catch of syncSingleCalendar does not look at the
\* status, so one failing status stands for all of them)
FetchAnswers == {"ok", "503"}

\* (the failure of the fetch is swallowed)
FetchFailedSilent == SyncResult0
\* the outer catch: the error of the fetch becomes one 'process' record
FetchFailed == [SyncResult0 EXCEPT !.errors = <<"process">>]

\* (the error of an insert ends the loop: no try inside the for)
InsertFailedAborts(r, id) ==
  [r EXCEPT !.pc = "return", !.cur = Absent,
            !.res.errors = Append(@, "process")]
\* the catch inside the loop: the error is recorded with the id of the event
\* and the loop goes on
InsertFailed(r, id) ==
  [r EXCEPT !.pc = "loop", !.cur = Absent, !.res.errors = Append(@, id)]

\* the call starts and awaits getCalendarEvents, which returns or throws; the
\* specification takes the runs one at a time, as syncAllCalendars does
SyncStart(c) ==
  /\ \A d \in Calendars : run[d].pc = "idle"
  /\ runs < MaxRuns
  /\ runs' = runs + 1
  /\ prev' = [cal |-> c, outcome |-> "running", touched |-> FALSE]
  /\ \E ans \in FetchAnswers :
       LET fetchOk == ans = "ok"
       IN run' = [run EXCEPT ![c] =
                    [pc |-> IF fetchOk THEN "loop" ELSE "return",
                     queue |-> IF fetchOk THEN Fetched(c) ELSE {},
                     cur |-> Absent,
                     res |-> IF fetchOk THEN SyncResult0 ELSE FetchFailed,
                     clean |-> prev.cal = c /\ ~prev.touched,
                     prevOk |-> prev.cal = c /\ prev.outcome = "ok",
                     listFailed |-> FALSE,
                     fetchCalls |-> 1,
                     fetchError |-> IF fetchOk THEN "none" ELSE ans,
                     fetched |-> IF fetchOk THEN Cardinality(Fetched(c)) ELSE 0,
                     skipped |-> 0,
                     before |-> Cardinality(target)]]
  /\ UNCHANGED <<source, target, edits, chk, eventMappings>>

\* one turn of the loop up to the insert: the 'cancelled' test, createSyncEvent,
\* and createEventInTarget up to the answer of checkForDuplicateEvent
SyncCheck(c) ==
  /\ run[c].pc = "loop"
  /\ \E ev \in NextOf(run[c].queue) :
       IF ev.summary = "cancelled"
       THEN /\ run' = [run EXCEPT ![c].queue = @ \ {ev}, ![c].skipped = @ + 1]
            /\ chk' = [chk EXCEPT ![c] = NoCheck]
       ELSE \E listOk \in BOOLEAN :
              LET dup == CheckForDuplicateEvent(ev, listOk)
              IN /\ chk' = [chk EXCEPT ![c] =
                              [covered |-> Covered(ev), listOk |-> listOk,
                               dup |-> dup, strict |-> StrictlyCovered(ev)]]
                 /\ run' = [run EXCEPT ![c].queue = @ \ {ev},
                                       ![c].cur = IF dup THEN Absent ELSE ev,
                                       ![c].pc = IF dup THEN "loop" ELSE "insert",
                                       ![c].listFailed = @ \/ ~listOk,
                                       ![c].skipped = IF dup THEN @ + 1 ELSE @]
  /\ UNCHANGED <<source, target, edits, runs, prev, eventMappings>>

\* calendar.events.insert answers: the placeholder exists and is counted, or the
\* error is recorded with the id of the event
SyncInsert(c) ==
  /\ run[c].pc = "insert"
  /\ chk' = [chk EXCEPT ![c] = NoCheck]
  /\ \E insertOk \in BOOLEAN :
       IF insertOk
       THEN /\ target' = target \cup {Placeholder(c, run[c].cur)}
            /\ run' = [run EXCEPT ![c].pc = "loop", ![c].cur = Absent,
                                  ![c].res.created = @ + 1]
       ELSE /\ run' = [run EXCEPT ![c] = InsertFailed(run[c], run[c].cur.id)]
            /\ UNCHANGED target
  /\ UNCHANGED <<source, edits, runs, prev, eventMappings>>

\* the loop is over: syncResult is complete
SyncLoopEnd(c) ==
  /\ run[c].pc = "loop"
  /\ run[c].queue = {}
  /\ run' = [run EXCEPT ![c].pc = "return"]
  /\ chk' = [chk EXCEPT ![c] = NoCheck]
  /\ UNCHANGED <<source, target, edits, runs, prev, eventMappings>>

\* syncSingleCalendar returns syncResult to its caller
SyncReturn(c) ==
  /\ run[c].pc = "return"
  /\ prev' = [prev EXCEPT !.outcome =
                 IF run[c].res.errors = <<>> THEN "ok" ELSE "errors"]
  /\ run' = [run EXCEPT ![c] = IdleRun]
  /\ UNCHANGED <<source, target, edits, runs, chk, eventMappings>>

(***************************************************************************)
(* createSyncEvent (lib/calendar-sync.ts) as a function of its arguments:  *)
(* it is applied to two source events of which the second is the first     *)
(* with some fields changed.                                               *)
(***************************************************************************)
BusyTitle == "busy"
\* the fields of a source event that carry its content
ContentFields == {"summary", "description", "location", "colorId", "visibility",
                  "attendees"}
\* the fields that carry its time
TimeFields == {"end", "timeZone"}

\* the first of the two events: its content is "x" in every field
SourceEvents ==
  {[id |-> "e1", kind |-> k, start |-> s, end |-> f, timeZone |-> z,
    summary |-> "x", description |-> "x", location |-> "x", colorId |-> "x",
    visibility |-> "x", attendees |-> "x"] :
      k \in {"timed", "allday"}, s \in Slots, f \in Slots \ {1},
      z \in {"Asia/Tokyo", "UTC"}}

\* ev with the fields in fs changed
Changed(ev, fs) ==
  [f \in DOMAIN ev |->
     IF f \notin fs THEN ev[f]
     ELSE IF f = "end" THEN ev.end + 1
     ELSE IF f = "timeZone" THEN "Europe/Paris"
     ELSE "y"]

NotBuilt == [summary |-> "none"]

BuildIdle ==
  /\ srcA = NotBuilt
  /\ srcB = NotBuilt
  /\ metaCal = NoCal
  /\ instant = 0
  /\ built = [x \in {"A", "B"} |-> NotBuilt]

\* const metadata: SyncMetadata = {...} in syncSingleCalendar
Metadata(c, ev, now) ==
  [sourceCalendarId |-> c, sourceCalendarName |-> <<"name of", c>>,
   sourceEventId |-> ev.id, syncedAt |-> now]

\* (the event is copied with its title)
CreateSyncEventWithTitle(ev, meta, now) ==
  [summary |-> ev.summary,
   kind |-> ev.kind, start |-> ev.start, end |-> ev.end, timeZone |-> ev.timeZone,
   description |-> <<"auto-sync", meta.sourceCalendarName, now, meta.sourceEventId>>,
   colorId |-> "8", transparency |-> "opaque", visibility |-> "default",
   guestsCanModify |-> FALSE, guestsCanInviteOthers |-> FALSE,
   reminders |-> <<>>, extendedProperties |-> meta]
\* createSyncEvent(sourceEvent, metadata), called at the instant now
CreateSyncEvent(ev, meta, now) ==
  [summary |-> BusyTitle,
   kind |-> ev.kind, start |-> ev.start, end |-> ev.end, timeZone |-> ev.timeZone,
   description |-> <<"auto-sync", meta.sourceCalendarName, now, meta.sourceEventId>>,
   colorId |-> "8", transparency |-> "opaque", visibility |-> "default",
   guestsCanModify |-> FALSE, guestsCanInviteOthers |-> FALSE,
   reminders |-> <<>>, extendedProperties |-> meta]

\* syncSingleCalendar builds the metadata and calls createSyncEvent
Build(x) ==
  /\ built[x] = NotBuilt
  /\ LET ev == IF x = "A" THEN srcA ELSE srcB
     IN built' = [built EXCEPT ![x] =
                    CreateSyncEvent(ev, Metadata(metaCal, ev, instant), instant)]
  /\ UNCHANGED <<srcA, srcB, metaCal, instant>>

\* time passes between two calls
BuildTick ==
  /\ instant < MaxInstant
  /\ instant' = instant + 1
  /\ UNCHANGED <<srcA, srcB, metaCal, built>>

(***************************************************************************)
(* Webhook channel manager (lib/webhook-manager).  A channel is kept with  *)
(* the hours left until its expiration; HourTick lets one hour pass.  The  *)
(* functions of the manager are operators on h = [stored, live, next],     *)
(* the storage and the provider as the function finds them; the answers of *)
(* the provider are arguments.                                             *)
(***************************************************************************)
\* getWebhookChannel returns null
NoChannel == [id |-> 0, left |-> 0]
\* isWebhookExpired: threshold = 60 * 60 * 1000 ms, in hours
Threshold == 1

NoOp == [op |-> "none", watchOk |-> FALSE, before |-> NoChannel, oldLive |-> FALSE,
         calls |-> {}, report |-> "none", refreshed |-> 0, failed |-> 0]

HookIdle ==
  /\ stored = [c \in Calendars |-> NoChannel]
  /\ live = {}
  /\ nextChan = 0
  /\ hookLast = [c \in Calendars |-> NoOp]

\* the answers of the provider to one renewal: channels.stop answers ("ok":
\* stopped, or 404 because the channel is gone) or fails otherwise ("error");
\* events.watch succeeds with a lifetime or fails (ttl is then of no account);
\* read: the storage answers; when it throws instead, every call that needs
\* it fails
Outcomes ==
  {o \in [read : BOOLEAN, stop : {"ok", "error"}, watch : BOOLEAN,
          ttl : 1..MaxTtl] :
     /\ ~o.watch => o.ttl = 1
     /\ ~o.read => o.stop = "error" /\ ~o.watch}

\* registerWebhook: events.watch, then setWebhookChannel; null on failure
registerWebhook(h, c, watchOk, ttl) ==
  IF ~watchOk THEN [h EXCEPT !.calls = @ \cup {<<c, "watch">>}]
  ELSE [h EXCEPT !.live = @ \cup {[cal |-> c, id |-> h.next + 1, left |-> ttl]},
                 !.stored[c] = [id |-> h.next + 1, left |-> ttl],
                 !.next = @ + 1,
                 !.calls = @ \cup {<<c, "watch">>}]

\* stopWebhook: no record: nothing to do; channels.stop succeeded or answered
\* 404: the record is deleted; any other failure: false is returned
stopWebhook(h, c, ans) ==
  IF h.stored[c] = NoChannel THEN h
  ELSE IF ans = "error" THEN [h EXCEPT !.calls = @ \cup {<<c, "stop">>}]
  ELSE [h EXCEPT !.live = {ch \in @ : ch.id # h.stored[c].id},
                 !.stored[c] = NoChannel,
                 !.calls = @ \cup {<<c, "stop">>}]

\* (a channel is renewed whatever time it has left)
isWebhookExpiredAlways(h, c) == TRUE
isWebhookExpired(h, c) ==
  \/ h.stored[c] = NoChannel
  \/ h.stored[c].left <= Threshold

\* refreshWebhook: await stopWebhook, then return await registerWebhook
refreshWebhook(h, c, o) ==
  registerWebhook(stopWebhook(h, c, o.stop), c, o.watch, o.ttl)

\* the loop of registerAllWebhooks from the i-th calendar on
RECURSIVE registerAll(_, _, _)
registerAll(h, i, os) ==
  IF i > Len(SourceCalendars) THEN h
  ELSE LET c == SourceCalendars[i]
       IN registerAll(registerWebhook(h, c, os[c].watch, os[c].ttl), i + 1, os)

\* (no try inside the loop: the first failure ends it)
ContinueUnlessFailed(i, r) ==
  IF r \in {"failed", "threw"} THEN Len(SourceCalendars) + 1 ELSE i + 1
\* the for loop goes on to the next calendar whatever the entry written: the
\* try and its catch are inside the loop
Continue(i, r) == i + 1

\* the loop of refreshExpiredWebhooks from the i-th calendar on; "threw": the
\* catch wrote the entry, after getWebhookChannel threw in isWebhookExpired
RECURSIVE refreshExpired(_, _, _)
refreshExpired(h, i, os) ==
  IF i > Len(SourceCalendars) THEN h
  ELSE LET c == SourceCalendars[i]
           g == IF ~os[c].read
                THEN [h EXCEPT !.report[c] = "threw", !.failed = @ + 1]
                ELSE IF isWebhookExpired(h, c)
                THEN [refreshWebhook(h, c, os[c]) EXCEPT
                        !.report[c] = IF os[c].watch THEN "refreshed" ELSE "failed",
                        !.refreshed = IF os[c].watch THEN @ + 1 ELSE @,
                        !.failed = IF os[c].watch THEN @ ELSE @ + 1]
                ELSE [h EXCEPT !.report[c] = "kept"]
       IN refreshExpired(g, Continue(i, g.report[c]), os)

\* the records and the provider as a call finds them; calls: the provider
\* calls made so far; report: the results entry written for each calendar;
\* refreshed, failed: the two counters of refreshExpiredWebhooks
Here == [stored |-> stored, live |-> live, next |-> nextChan,
         calls |-> {}, report |-> [c \in Calendars |-> "none"],
         refreshed |-> 0, failed |-> 0]
Becomes(h) ==
  /\ h.next <= MaxChannels
  /\ stored' = h.stored
  /\ live' = h.live
  /\ nextChan' = h.next
\* what a call on c found, whether its events.watch succeeded, and what the
\* call, which led to h, did for c
Found(c, op, watchOk, h) ==
  [op |-> op, watchOk |-> watchOk, before |-> stored[c],
   oldLive |-> \E ch \in live : ch.id = stored[c].id,
   calls |-> {k[2] : k \in {x \in h.calls : x[1] = c}},
   report |-> h.report[c], refreshed |-> h.refreshed, failed |-> h.failed]

\* the answers of calls that are not made stay at one value: channels.stop is
\* not called without a record, and a sweep calls neither channels.stop nor
\* events.watch for a record outside the margin
Asked(c, o, sweep) ==
  /\ (o.read /\ stored[c] = NoChannel) => o.stop = "ok"
  /\ (sweep /\ o.read /\ ~isWebhookExpired(Here, c)) => o.stop = "ok" /\ ~o.watch

RegisterWebhook(c) ==
  \E o \in Outcomes :
    /\ o.stop = "ok"
    /\ Becomes(registerWebhook(Here, c, o.watch, o.ttl))
    /\ hookLast' = [hookLast EXCEPT ![c] =
         Found(c, "register", o.watch, registerWebhook(Here, c, o.watch, o.ttl))]

StopWebhook(c) ==
  \E ans \in {"ok", "error"} :
    /\ Becomes(stopWebhook(Here, c, ans))
    /\ hookLast' = [hookLast EXCEPT ![c] =
         Found(c, "stop", FALSE, stopWebhook(Here, c, ans))]

RefreshWebhook(c) ==
  \E o \in Outcomes :
    LET h == refreshWebhook(Here, c, o)
    IN /\ o.read /\ Asked(c, o, FALSE)
       /\ Becomes(h)
       /\ hookLast' = [hookLast EXCEPT ![c] = Found(c, "refresh", o.watch, h)]

RegisterAllWebhooks ==
  \E os \in [Calendars -> {o \in Outcomes : o.stop = "ok"}] :
    /\ Becomes(registerAll(Here, 1, os))
    /\ hookLast' = [c \in Calendars |->
         Found(c, "register", os[c].watch, registerAll(Here, 1, os))]

RefreshExpiredWebhooks ==
  \E os \in [Calendars -> Outcomes] :
    LET h == refreshExpired(Here, 1, os)
    IN /\ \A c \in Calendars : Asked(c, os[c], TRUE)
       /\ Becomes(h)
       /\ hookLast' = [c \in Calendars |->
            IF <<c, "watch">> \in h.calls
            THEN Found(c, "refresh", os[c].watch, h)
            ELSE Found(c, "keep", FALSE, h)]

\* one hour passes; the provider drops the channels that expire
HourTick ==
  /\ stored' = [c \in Calendars |->
                  IF stored[c] = NoChannel THEN NoChannel
                  ELSE [stored[c] EXCEPT !.left = IF @ > 0 THEN @ - 1 ELSE 0]]
  /\ live' = {[ch EXCEPT !.left = @ - 1] : ch \in {x \in live : x.left > 1}}
  /\ hookLast' = [c \in Calendars |-> NoOp]
  /\ UNCHANGED nextChan

(***************************************************************************)
(* Retry policy (lib/error-handler.ts).  An error is the pair of its code  *)
(* and of what its message includes.                                       *)
(***************************************************************************)
\* error.code ("none": undefined)
Codes == {"none", "401", "403", "404", "409", "410", "429", "500", "502", "503",
          "504", "ECONNRESET"}
\* error.message includes: 'rate limit' / 'quota' / 'Rate Limit Exceeded';
\* 'token'; 'ECONNRESET' / 'ETIMEDOUT' / 'ENOTFOUND' / 'network'; none of these
Messages == {"quota", "token", "network", "other"}
Errors == [code : Codes, msg : Messages]
NoError == [code |-> "none", msg |-> "undefined"]

\* defaults of the options
BaseDelay == 1000
MaxDelay == 10000
BackoffMultiplier == 2

RECURSIVE Pow(_, _)
Pow(b, n) == IF n = 0 THEN 1 ELSE b * Pow(b, n - 1)

\* (a classification that retries everything)
ShouldRetryAll(e) == TRUE
ShouldRetry(e) ==
  IF e.code # "none"
  THEN CASE e.code = "403" -> e.msg = "quota"
         [] e.code = "429" -> TRUE
         [] e.code \in {"500", "502", "503", "504"} -> TRUE
         [] e.code = "401" -> e.msg # "token"
         [] e.code \in {"404", "409", "410"} -> FALSE
         [] OTHER -> FALSE
  ELSE e.msg = "network"

\* options.retryCondition(error, attempt)
RetryCondition(e, a) ==
  CASE retryCondition = "default" -> ShouldRetry(e) /\ a < maxAttempts
    [] retryCondition = "always" -> TRUE
    [] retryCondition = "never" -> FALSE

\* (a loop that runs once more)
InLoopOnceMore(a) == a <= maxAttempts + 1
\* the condition of the for loop
InLoop(a) == a <= maxAttempts

\* (a delay without the cap)
DelayUncapped(a) == BaseDelay * Pow(BackoffMultiplier, a - 1)
\* Math.min(baseDelay * Math.pow(backoffMultiplier, attempt - 1), maxDelay)
Delay(a) == Min(BaseDelay * Pow(BackoffMultiplier, a - 1), MaxDelay)

\* the throw after the loop: lastError.message of undefined is a TypeError
Thrown == IF lastError' = NoError THEN "typeError" ELSE "thrown"

RetryIdle ==
  /\ maxAttempts = 3
  /\ retryCondition = "default"
  /\ rpc = "idle"
  /\ attempt = 0
  /\ lastError = NoError
  /\ calls = 0
  /\ sleeps = <<>>
  /\ onlyCode = "unset"

\* withRetry is called: attempt = 1 and the first test of the loop
RetryEnter ==
  /\ rpc = "entry"
  /\ attempt' = 1
  /\ lastError' = lastError
  /\ rpc' = IF InLoop(1) THEN "call" ELSE Thrown
  /\ UNCHANGED <<maxAttempts, retryCondition, calls, sleeps, onlyCode>>

\* attempt++ and the test of the loop
NextAttempt ==
  /\ attempt' = attempt + 1
  /\ rpc' = IF InLoop(attempt + 1) THEN "call" ELSE Thrown

\* await operation(): it resolves, or it rejects and the catch clause runs up
\* to its await sleep(delay)
RetryAttempt ==
  /\ rpc = "call"
  /\ calls' = calls + 1
  /\ \/ /\ rpc' = "returned"
        /\ UNCHANGED <<attempt, lastError, sleeps, onlyCode>>
     \/ \E e \in Errors :
          /\ lastError' = e
          /\ onlyCode' = IF onlyCode \in {"unset", e.code} THEN e.code ELSE "mixed"
          /\ IF ~RetryCondition(e, attempt)
             THEN /\ rpc' = Thrown
                  /\ UNCHANGED <<attempt, sleeps>>
             ELSE IF attempt < maxAttempts
             THEN /\ rpc' = "sleep"
                  /\ sleeps' = Append(sleeps, Delay(attempt))
                  /\ UNCHANGED attempt
             ELSE /\ NextAttempt
                  /\ UNCHANGED sleeps
  /\ UNCHANGED <<maxAttempts, retryCondition>>

\* the sleep is over
RetryWake ==
  /\ rpc = "sleep"
  /\ lastError' = lastError
  /\ NextAttempt
  /\ UNCHANGED <<maxAttempts, retryCondition, calls, sleeps, onlyCode>>

(***************************************************************************)
(* Webhook endpoint (api/webhook/calendar.ts): handleWebhook has no await,  *)
(* so one request is handled in one step.                                  *)
(***************************************************************************)
WEBHOOK_SECRET == "secret"
\* x-goog-resource-uri as its path segments (<<>>: no header); "project" is
\* the target calendar, which is not a source calendar
Uris ==
  {<<>>, <<"calendars", "private", "events">>, <<"calendars", "w%6Frk", "events">>,
   <<"calendars", "project", "events">>, <<"calendars", "private">>,
   <<"calendars", "%", "events">>}
\* query token, channel token, channel id and resource state ("none": absent)
Requests ==
  [qtoken : {"none", WEBHOOK_SECRET, "wrong"},
   htoken : {"none", WEBHOOK_SECRET, "wrong"},
   chan : {"none", "ch-1"},
   state : {"none", "sync", "exists", "not_exists"},
   uri : Uris]
\* the notification the provider sends for a change of calendar "private"
Genuine ==
  [qtoken |-> WEBHOOK_SECRET, htoken |-> WEBHOOK_SECRET, chan |-> "ch-1",
   state |-> "exists", uri |-> <<"calendars", "private", "events">>]

NoResponse == [status |-> 0, message |-> "none", called |-> NoCal, ceiling |-> FALSE]
HandlerIdle ==
  /\ inbox = <<>>
  /\ hres = NoResponse

\* req.query.token || req.headers['x-goog-channel-token']
Token(r) == IF r.qtoken # "none" THEN r.qtoken ELSE r.htoken

\* (no token check)
AuthorizedAlways(r) == TRUE
\* token === config.WEBHOOK_SECRET
Authorized(r) == Token(r) = WEBHOOK_SECRET

\* (every resource state but 'sync' is taken for a change)
UnsupportedNever(r) == FALSE
\* resourceState !== 'exists'
Unsupported(r) == r.state # "exists"

\* decodeURIComponent: "throws" stands for the URIError of a malformed escape
Decode(seg) ==
  CASE seg = "w%6Frk" -> "work"
    [] seg = "%" -> "throws"
    [] OTHER -> seg

\* extractCalendarIdFromResourceUri: the segment between the first
\* /calendars/ and /events, decoded ("null": no match)
ExtractCalendarIdFromResourceUri(uri) ==
  LET hits == {i \in 1..(Len(uri) - 2) :
                 uri[i] = "calendars" /\ uri[i + 1] # "" /\ uri[i + 2] = "events"}
  IN IF hits = {} THEN "null"
     ELSE Decode(uri[(CHOOSE i \in hits : \A j \in hits : i <= j) + 1])

Answer(st, msg, c) == [status |-> st, message |-> msg, called |-> c, ceiling |-> FALSE]

\* handleWebhook up to its return: the response, and the calendar debouncedSync
\* is called for (NoCal: not called)
Response(r) ==
  IF ~Authorized(r) THEN Answer(401, "token", NoCal)
  ELSE IF r.chan = "none" \/ r.state = "none" THEN Answer(400, "headers", NoCal)
  ELSE IF r.state = "sync" THEN Answer(200, "sync", NoCal)
  ELSE IF Unsupported(r) THEN Answer(200, "unsupported", NoCal)
  ELSE LET calendarId == ExtractCalendarIdFromResourceUri(r.uri)
       IN IF calendarId = "throws" THEN Answer(500, "error", NoCal)
          ELSE IF calendarId = "null" THEN Answer(400, "uri", NoCal)
          ELSE IF calendarId \notin Calendars THEN Answer(200, "unwatched", NoCal)
          ELSE Answer(200, "scheduled", calendarId)

\* the request at the head of the inbox is handled
HandleWebhook ==
  /\ inbox # <<>>
  /\ inbox' = Tail(inbox)
  /\ LET a == Response(Head(inbox))
     IN IF a.called = NoCal
        THEN /\ hres' = a
             /\ UNCHANGED debounceVars
        ELSE /\ DebouncedSync(a.called)
             /\ hres' = [a EXCEPT !.ceiling = inFlight'[a.called] > inFlight[a.called]]

(***************************************************************************)
(* getCalendarEvents (lib/calendar-sync.ts): the listing and its catch.    *)
(***************************************************************************)
\* what events.list answers: the events; an error with code 410; an error
\* whose message includes 'Sync token is no longer valid'; another error
ListAnswers == {"ok", "410", "stale", "503"}

FetchIdle ==
  /\ fpc = "idle"
  /\ fcursor = "none"
  /\ flog = <<>>

\* error.code === 410 || error.message?.includes('Sync token is no longer valid')
IsStale(ans) == ans \in {"410", "stale"}

\* getCalendarEvents(calendarId, syncToken) is called
GetCalendarEvents(tok) ==
  /\ fpc = "idle"
  /\ fpc' = "list"
  /\ fcursor' = tok
  /\ flog' = <<>>

\* await calendar.events.list(params): the events are returned, or the catch
\* runs: return await getCalendarEvents(calendarId, null), or throw error
ListEvents ==
  /\ fpc = "list"
  /\ Len(flog) < MaxLists
  /\ \E ans \in ListAnswers :
       /\ flog' = Append(flog, [cursor |-> fcursor, ans |-> ans])
       /\ fpc' = IF ans = "ok" THEN "returned"
                 ELSE IF IsStale(ans) THEN "list" ELSE "thrown"
       /\ fcursor' = IF ans # "ok" /\ IsStale(ans) THEN "none" ELSE fcursor

NextSync ==
  \/ \E c \in Calendars, e \in EventIds : AddEvent(c, e) /\ UNCHANGED <<debounceVars, hookVars, retryVars, buildVars, handlerVars, fetchVars>>
  \/ \E c \in Calendars, e \in EventIds : MoveEvent(c, e) /\ UNCHANGED <<debounceVars, hookVars, retryVars, buildVars, handlerVars, fetchVars>>
  \/ \E c \in Calendars, e \in EventIds : Respond(c, e) /\ UNCHANGED <<debounceVars, hookVars, retryVars, buildVars, handlerVars, fetchVars>>
  \/ \E c \in Calendars, e \in EventIds : Rename(c, e) /\ UNCHANGED <<debounceVars, hookVars, retryVars, buildVars, handlerVars, fetchVars>>
  \/ \E c \in Calendars, e \in EventIds : RemoveEvent(c, e) /\ UNCHANGED <<debounceVars, hookVars, retryVars, buildVars, handlerVars, fetchVars>>
  \/ \E c \in Calendars : SyncStart(c) /\ UNCHANGED <<debounceVars, hookVars, retryVars, buildVars, handlerVars, fetchVars>>
  \/ \E c \in Calendars : SyncCheck(c) /\ UNCHANGED <<debounceVars, hookVars, retryVars, buildVars, handlerVars, fetchVars>>
  \/ \E c \in Calendars : SyncInsert(c) /\ UNCHANGED <<debounceVars, hookVars, retryVars, buildVars, handlerVars, fetchVars>>
  \/ \E c \in Calendars : SyncLoopEnd(c) /\ UNCHANGED <<debounceVars, hookVars, retryVars, buildVars, handlerVars, fetchVars>>
  \/ \E c \in Calendars : SyncReturn(c) /\ UNCHANGED <<debounceVars, hookVars, retryVars, buildVars, handlerVars, fetchVars>>

InitSync ==
  /\ DebounceIdle
  /\ quota = [c \in Calendars |-> 0]
  /\ SyncIdle
  /\ HookIdle
  /\ FetchIdle
  /\ HandlerIdle
  /\ RetryIdle
  /\ BuildIdle

SpecSync == InitSync /\ [][NextSync]_vars

\* ids of the events of the prepared calendar
BatchIds == {"e1", "e2"}
\* the events a prepared calendar may hold
BatchEvents ==
  {[kind |-> k, start |-> s, end |-> f, self |-> "none", summary |-> t] :
     k \in {"timed", "allday"}, s \in Slots, f \in Slots \ {1},
     t \in {"meeting", "cancelled"}}

\* an event of the target calendar the owner entered there: it carries no
\* extendedProperties
Native ==
  [id |-> 0, kind |-> "timed", start |-> 1, end |-> MaxSlot,
   summary |-> "native", srcCal |-> NoCal, srcEvent |-> "none",
   declined |-> FALSE]
\* a placeholder an earlier run created for an event of the other source
\* calendar
Foreign ==
  [id |-> -1, kind |-> "timed", start |-> 1, end |-> MaxSlot,
   summary |-> "busy", srcCal |-> "work", srcEvent |-> "w1",
   declined |-> FALSE]

NextBatch ==
  \/ \E c \in Calendars : SyncStart(c) /\ UNCHANGED <<debounceVars, hookVars, retryVars, buildVars, handlerVars, fetchVars>>
  \/ \E c \in Calendars : SyncCheck(c) /\ UNCHANGED <<debounceVars, hookVars, retryVars, buildVars, handlerVars, fetchVars>>
  \/ \E c \in Calendars : SyncInsert(c) /\ UNCHANGED <<debounceVars, hookVars, retryVars, buildVars, handlerVars, fetchVars>>
  \/ \E c \in Calendars : SyncLoopEnd(c) /\ UNCHANGED <<debounceVars, hookVars, retryVars, buildVars, handlerVars, fetchVars>>
  \/ \E c \in Calendars : SyncReturn(c) /\ UNCHANGED <<debounceVars, hookVars, retryVars, buildVars, handlerVars, fetchVars>>

\* the calendar "private" holds two events, which nobody edits; the other
\* calendars are empty; the target is empty or holds events from before
InitBatch ==
  /\ DebounceIdle
  /\ quota = [c \in Calendars |-> 0]
  /\ HookIdle
  /\ FetchIdle
  /\ HandlerIdle
  /\ RetryIdle
  /\ BuildIdle
  /\ source \in {[c \in Calendars |->
                     IF c = "private" THEN b ELSE [e \in BatchIds |-> Absent]] :
                  b \in {x \in [BatchIds -> BatchEvents] :
                           /\ \A e \in BatchIds : x[e].start < x[e].end
                           /\ x["e1"].summary = "meeting"}}
  /\ target \in {{}, {Native}, {Native, Foreign}}
  /\ edits = 0
  /\ runs = 0
  /\ run = [c \in Calendars |-> IdleRun]
  /\ chk = [c \in Calendars |-> NoCheck]
  /\ prev = NoRun
  /\ eventMappings = {}

SpecBatch == InitBatch /\ [][NextBatch]_vars

\* ---- executeSync around syncSingleCalendar ----
\* the engine's steps are followed for one run at a time; a run that starts
\* while another is followed passes as in-flight only
CanFollow == runs < MaxRuns /\ \A d \in Calendars : run[d].pc = "idle"
Followed(c) == run[c].pc # "idle"

\* a notification; past the ceiling it calls executeSync itself
Notify(c) ==
  /\ DebouncedSync(c)
  /\ IF inFlight'[c] > inFlight[c] /\ CanFollow
     THEN SyncStart(c) ELSE UNCHANGED syncVars

\* the timeout callback calls executeSync, which calls syncSingleCalendar
Fire(c) ==
  /\ TimerFire(c)
  /\ IF CanFollow THEN SyncStart(c) ELSE UNCHANGED syncVars

\* await syncSingleCalendar(...) returns and the finally clause runs
Settle(c) ==
  \/ SyncReturn(c) /\ ExecuteSyncSettled(c, FALSE)
  \/ /\ inFlight[c] > (IF Followed(c) THEN 1 ELSE 0)
     /\ ExecuteSyncFinally(c)
     /\ UNCHANGED syncVars

NextCoalesced ==
  \/ \E c \in Calendars : Notify(c) /\ UNCHANGED <<hookVars, retryVars, buildVars, handlerVars, fetchVars>>
  \/ \E c \in Calendars : Fire(c) /\ UNCHANGED <<hookVars, retryVars, buildVars, handlerVars, fetchVars>>
  \/ \E c \in Calendars : SyncCheck(c) /\ UNCHANGED <<debounceVars, hookVars, retryVars, buildVars, handlerVars, fetchVars>>
  \/ \E c \in Calendars : SyncInsert(c) /\ UNCHANGED <<debounceVars, hookVars, retryVars, buildVars, handlerVars, fetchVars>>
  \/ \E c \in Calendars : SyncLoopEnd(c) /\ UNCHANGED <<debounceVars, hookVars, retryVars, buildVars, handlerVars, fetchVars>>
  \/ \E c \in Calendars : Settle(c) /\ UNCHANGED <<hookVars, retryVars, buildVars, handlerVars, fetchVars>>
  \/ Tick /\ UNCHANGED <<syncVars, hookVars, retryVars, buildVars, handlerVars, fetchVars>>

\* the calendar "private" holds one event and receives notifications
InitCoalesced ==
  /\ DebounceIdle
  /\ quota = [c \in Calendars |-> IF c = "private" THEN MaxRuns ELSE 0]
  /\ HookIdle
  /\ FetchIdle
  /\ HandlerIdle
  /\ RetryIdle
  /\ BuildIdle
  /\ source = [c \in Calendars |-> [e \in EventIds |->
                 IF c = "private"
                 THEN [kind |-> "timed", start |-> 1, end |-> 2,
                       self |-> "none", summary |-> "meeting"]
                 ELSE Absent]]
  /\ target = {}
  /\ edits = 0
  /\ runs = 0
  /\ run = [c \in Calendars |-> IdleRun]
  /\ chk = [c \in Calendars |-> NoCheck]
  /\ prev = NoRun
  /\ eventMappings = {}

SpecCoalesced == InitCoalesced /\ [][NextCoalesced]_vars

NextHandler ==
  \/ HandleWebhook /\ UNCHANGED <<syncVars, hookVars, retryVars, buildVars, fetchVars>>
  \/ \E c \in Calendars : TimerFire(c) /\ UNCHANGED <<syncVars, hookVars, retryVars, buildVars, handlerVars, fetchVars>>
  \/ \E c \in Calendars : ExecuteSyncFinally(c) /\ UNCHANGED <<syncVars, hookVars, retryVars, buildVars, handlerVars, fetchVars>>
  \/ Tick /\ UNCHANGED <<syncVars, hookVars, retryVars, buildVars, handlerVars, fetchVars>>

\* any one request, delivered any number of times among genuine notifications
InitHandler ==
  /\ DebounceIdle
  /\ quota = [c \in Calendars |-> MaxDeliveries]
  /\ SyncIdle
  /\ HookIdle
  /\ FetchIdle
  /\ RetryIdle
  /\ BuildIdle
  /\ \E r \in Requests : inbox \in [1..MaxDeliveries -> {r, Genuine}]
  /\ hres = NoResponse

SpecHandler == InitHandler /\ [][NextHandler]_vars

NextFetch ==
  \/ \E tok \in {"none", "token"} : GetCalendarEvents(tok) /\ UNCHANGED <<debounceVars, syncVars, hookVars, retryVars, buildVars, handlerVars>>
  \/ ListEvents /\ UNCHANGED <<debounceVars, syncVars, hookVars, retryVars, buildVars, handlerVars>>

InitFetch ==
  /\ DebounceIdle
  /\ quota = [c \in Calendars |-> 0]
  /\ SyncIdle
  /\ HookIdle
  /\ HandlerIdle
  /\ RetryIdle
  /\ BuildIdle
  /\ FetchIdle

SpecFetch == InitFetch /\ [][NextFetch]_vars

NextDebounce ==
  \/ \E c \in Calendars : DebouncedSync(c) /\ UNCHANGED <<syncVars, hookVars, retryVars, buildVars, handlerVars, fetchVars>>
  \/ \E c \in Calendars : TimerFire(c) /\ UNCHANGED <<syncVars, hookVars, retryVars, buildVars, handlerVars, fetchVars>>
  \/ \E c \in Calendars : ExecuteSyncFinally(c) /\ UNCHANGED <<syncVars, hookVars, retryVars, buildVars, handlerVars, fetchVars>>
  \/ Tick /\ UNCHANGED <<syncVars, hookVars, retryVars, buildVars, handlerVars, fetchVars>>

\* notifications for one source calendar, in any pattern
InitDebounce ==
  /\ DebounceIdle
  /\ SyncIdle
  /\ quota = [c \in Calendars |-> IF c = "private" THEN MaxNotifs ELSE 0]
  /\ HookIdle
  /\ FetchIdle
  /\ HandlerIdle
  /\ RetryIdle
  /\ BuildIdle

SpecDebounce == InitDebounce /\ [][NextDebounce]_vars

\* a shorter series of notifications for one source calendar
InitFair ==
  /\ DebounceIdle
  /\ SyncIdle
  /\ quota = [c \in Calendars |-> IF c = "private" THEN MaxFairNotifs ELSE 0]
  /\ HookIdle
  /\ FetchIdle
  /\ HandlerIdle
  /\ RetryIdle
  /\ BuildIdle

\* time passes, a due timeout fires, and syncSingleCalendar settles
FairDebounce ==
  /\ InitFair /\ [][NextDebounce]_vars
  /\ WF_debounceVars(Tick)
  /\ \A c \in Calendars : /\ WF_debounceVars(TimerFire(c))
                          /\ WF_debounceVars(ExecuteSyncFinally(c))

NextWebhook ==
  \/ \E c \in Calendars : RegisterWebhook(c) /\ UNCHANGED <<debounceVars, syncVars, retryVars, buildVars, handlerVars, fetchVars>>
  \/ \E c \in Calendars : StopWebhook(c) /\ UNCHANGED <<debounceVars, syncVars, retryVars, buildVars, handlerVars, fetchVars>>
  \/ \E c \in Calendars : RefreshWebhook(c) /\ UNCHANGED <<debounceVars, syncVars, retryVars, buildVars, handlerVars, fetchVars>>
  \/ RegisterAllWebhooks /\ UNCHANGED <<debounceVars, syncVars, retryVars, buildVars, handlerVars, fetchVars>>
  \/ RefreshExpiredWebhooks /\ UNCHANGED <<debounceVars, syncVars, retryVars, buildVars, handlerVars, fetchVars>>
  \/ HourTick /\ UNCHANGED <<debounceVars, syncVars, retryVars, buildVars, handlerVars, fetchVars>>

InitWebhook ==
  /\ DebounceIdle
  /\ quota = [c \in Calendars |-> 0]
  /\ SyncIdle
  /\ HookIdle
  /\ FetchIdle
  /\ HandlerIdle
  /\ RetryIdle
  /\ BuildIdle

SpecWebhook == InitWebhook /\ [][NextWebhook]_vars

NextRetry ==
  \/ RetryEnter /\ UNCHANGED <<debounceVars, syncVars, hookVars, buildVars, handlerVars, fetchVars>>
  \/ RetryAttempt /\ UNCHANGED <<debounceVars, syncVars, hookVars, buildVars, handlerVars, fetchVars>>
  \/ RetryWake /\ UNCHANGED <<debounceVars, syncVars, hookVars, buildVars, handlerVars, fetchVars>>

\* one call of withRetry, with any maxAttempts and any of the retry conditions
InitRetry ==
  /\ DebounceIdle
  /\ quota = [c \in Calendars |-> 0]
  /\ SyncIdle
  /\ HookIdle
  /\ FetchIdle
  /\ HandlerIdle
  /\ maxAttempts \in 0..MaxTries
  /\ retryCondition \in {"default", "always", "never"}
  /\ rpc = "entry"
  /\ attempt = 0
  /\ lastError = NoError
  /\ calls = 0
  /\ sleeps = <<>>
  /\ onlyCode = "unset"
  /\ BuildIdle

SpecRetry == InitRetry /\ [][NextRetry]_vars

NextBuild ==
  \/ \E x \in {"A", "B"} : Build(x) /\ UNCHANGED <<debounceVars, syncVars, hookVars, retryVars, handlerVars, fetchVars>>
  \/ BuildTick /\ UNCHANGED <<debounceVars, syncVars, hookVars, retryVars, handlerVars, fetchVars>>

\* any source event, and any set of its fields changed in the second one
InitBuild ==
  /\ DebounceIdle
  /\ quota = [c \in Calendars |-> 0]
  /\ SyncIdle
  /\ HookIdle
  /\ FetchIdle
  /\ HandlerIdle
  /\ RetryIdle
  /\ srcA \in {ev \in SourceEvents : ev.start < ev.end}
  /\ srcB \in {Changed(srcA, fs) : fs \in SUBSET (ContentFields \cup TimeFields)}
  /\ metaCal \in Calendars
  /\ instant = 0
  /\ built = [x \in {"A", "B"} |-> NotBuilt]

SpecBuild == InitBuild /\ [][NextBuild]_vars

(***************************************************************************)
(* Properties of the coalescer                                             *)
(***************************************************************************)

\* C1 (debounce coalescing): as long as every notification for a calendar
\* arrived before the pending timer of that calendar had fired, the burst has
\* invoked syncSingleCalendar not at all while its timer is pending, and exactly
\* once from the moment the timer has fired (or the ceiling was hit).
C1_ExactlyOneRun ==
  \A c \in Calendars :
    ~everLate[c] =>
      IF Pending(c) # {} THEN burstRuns[c] = 0 /\ inFlight[c] = 0
      ELSE IF burstN[c] > 0 THEN burstRuns[c] = 1
      ELSE burstRuns[c] = 0

\* a burst of five notifications was coalesced into one run, which has ended
C1_Witness ==
  \E c \in Calendars :
    /\ ~everLate[c] /\ burstN[c] = 5 /\ burstRuns[c] = 1
    /\ syncTimers[c] = NoTimer /\ inFlight[c] = 0

\* C2 (hard ceiling): while a notification is not yet followed by the start of
\* a run, at most MAX_WAIT_TIME has passed since the first such notification
\* and a timeout of that calendar is scheduled to fire within MAX_WAIT_TIME of
\* it (a due timeout fires before time moves on).
C2_HardCeiling ==
  \A c \in Calendars :
    burstStart[c] # NoTime =>
      /\ burstStart[c] <= MAX_WAIT_TIME
      /\ \E t \in timers : t.cal = c /\ burstStart[c] + t.left <= MAX_WAIT_TIME

\* notifications kept the timer from firing until the ceiling, where the run
\* has started: exactly MAX_WAIT_TIME after the first notification
C2_Witness ==
  \E c \in Calendars :
    /\ ~everLate[c] /\ burstN[c] >= 6
    /\ firstWebhookTime[c] = MAX_WAIT_TIME
    /\ inFlight[c] = 1 /\ burstRuns[c] = 1 /\ burstStart[c] = NoTime

\* C8 (per-resource serialization): at most one run started by the coalescer
\* is in flight for a calendar.
C8_OneRunInFlight == \A c \in Calendars : inFlight[c] <= 1

(***************************************************************************)
(* Properties of the reconciliation engine                                 *)
(***************************************************************************)

C4_NoDuplicatePlaceholders ==
  \A p \in target : \A q \in target :
    p.srcCal = q.srcCal /\ p.srcEvent = q.srcEvent => p = q

Checked(c) ==
  {ev \in run[c].queue : /\ ev \notin run'[c].queue
                         /\ run[c].pc = "loop" /\ ev.summary # "cancelled"}

\* C31 (all-day events need exact equality): the duplicate check answers
\* 'duplicate' for an all-day event only if the target holds an all-day
\* placeholder with provenance of exactly its start and end date, and for a
\* timed event only if a timed placeholder with provenance contains its
\* window; a placeholder of the other kind never counts.
C31_Step ==
  \A c \in Calendars : \A ev \in Checked(c) :
    chk'[c].dup =>
      \E p \in target :
        /\ p.srcCal # NoCal /\ p.kind = ev.kind
        /\ IF ev.kind = "allday"
           THEN p.start = ev.start /\ p.end = ev.end
           ELSE p.start <= ev.start /\ p.end >= ev.end
C31_AllDayExact == [][C31_Step]_vars

\* with every listing of the target answered, an all-day event has been
\* created although an all-day placeholder strictly contains its dates
C31_Witness ==
  \E c \in Calendars :
    /\ run[c].pc = "return" /\ ~run[c].listFailed /\ run[c].res.created = 2
    /\ \E p, q \in target :
         /\ p.kind = "allday" /\ q.kind = "allday"
         /\ p.start <= q.start /\ p.end >= q.end
         /\ <<p.start, p.end>> # <<q.start, q.end>>

\* C10 (declined-event exclusion): an event that getCalendarEvents read as
\* declined by the owner is in no run's list of events, is never handed to
\* the insert, and no placeholder of the target was made from it.
C10_DeclinedExcluded ==
  /\ \A p \in target : ~p.declined
  /\ \A c \in Calendars :
       /\ \A ev \in run[c].queue : ev.self # "declined"
       /\ run[c].cur # Absent => run[c].cur.self # "declined"

\* a run over a calendar whose only event is declined has ended without error
\* and without a placeholder
C10_Witness ==
  \E c \in Calendars : \E e \in EventIds :
    /\ run[c].pc = "return" /\ run[c].res = SyncResult0 /\ ~prev.touched
    /\ source[c][e] # Absent /\ source[c][e].kind = "timed"
    /\ source[c][e].self = "declined" /\ source[c][e].summary = "meeting"
    /\ \A p \in target : p.srcCal # c

\* the source events of c that getCalendarEvents keeps and the loop does not skip
Qualifying(c) ==
  {e \in DOMAIN source[c] : /\ source[c][e] # Absent /\ Keeps(source[c][e])
                    /\ source[c][e].summary # "cancelled"}

\* a run of c has gone through all its events without an error, every listing
\* of the target answered, and the source is as the run fetched it
Settled(c) ==
  /\ run[c].pc = "return" /\ run[c].res.errors = <<>> /\ ~run[c].listFailed
  /\ prev.cal = c /\ ~prev.touched

\* C12 (create-then-map): every placeholder the engine created in the target
\* has its mapping (sourceCalendarId, sourceEventId) -> id in storage.
C12_CreatedIsMapped ==
  \A p \in target :
    [cal |-> p.srcCal, event |-> p.srcEvent, id |-> p.id] \in eventMappings

\* C13 (update in place): after a run of a calendar, every placeholder made
\* for one of its qualifying events has the window the event has now.
C13_UpdatedInPlace ==
  \A c \in Calendars :
    Settled(c) =>
      \A p \in target :
        p.srcCal = c /\ p.srcEvent \in Qualifying(c) =>
          /\ p.start = source[c][p.srcEvent].start
          /\ p.end = source[c][p.srcEvent].end

\* C14 (deletion): after a run of a calendar, no placeholder remains for an
\* event of it that is cancelled or no longer in the source calendar.
C14_GoneIsDeleted ==
  \A c \in Calendars :
    Settled(c) =>
      \A p \in target :
        p.srcCal = c =>
          /\ source[c][p.srcEvent] # Absent
          /\ source[c][p.srcEvent].summary # "cancelled"

\* C15 (per-event failure isolation): a run whose fetch succeeded ends with
\* every fetched event accounted for once: created, passed over, or recorded
\* as an error under its own id; no id is recorded twice, and created is the
\* number of events the run has added to the target.
C15_FailureIsolated ==
  \A c \in Calendars :
    run[c].pc = "return" /\ run[c].fetchError = "none" =>
      LET r == run[c]
      IN /\ r.res.created + r.skipped + Len(r.res.errors) = r.fetched
         /\ r.res.created = Cardinality(target) - r.before
         /\ \A i \in 1..Len(r.res.errors) :
              /\ r.res.errors[i] \in DOMAIN source[c]
              /\ \A j \in 1..Len(r.res.errors) :
                   r.res.errors[i] = r.res.errors[j] => i = j

\* the insert for the first of two events failed and the second was created
C15_Witness ==
  \E c \in Calendars :
    /\ run[c].pc = "return" /\ run[c].fetched = 2
    /\ run[c].res.errors = <<"e1">> /\ run[c].res.created = 1
    /\ \E p \in target : p.srcCal = c /\ p.srcEvent = "e2"

\* C16 (whole-calendar failure): a run whose fetch of the source failed
\* returns a result with an error record and zero created, updated and
\* deleted, having left the target as it found it; and the step in which the
\* coalescer takes that result schedules nothing: it sets no timeout and
\* starts no run, so that a later run of the calendar comes from a
\* notification or from a timeout a notification had set.
C16_FetchFailureResult ==
  \A c \in Calendars :
    run[c].pc = "return" /\ run[c].fetchError # "none" =>
      /\ run[c].res.errors # <<>>
      /\ run[c].res.created = 0 /\ run[c].res.updated = 0
      /\ run[c].res.deleted = 0
      /\ Cardinality(target) = run[c].before
C16_NoRerun ==
  \A c \in Calendars :
    /\ (run[c].pc = "return" /\ run[c].fetchError # "none" /\ run'[c].pc = "idle")
         => /\ timers' = timers
            /\ inFlight'[c] = inFlight[c] - 1
            /\ \A d \in Calendars : run'[d].pc = "idle"
    /\ inFlight'[c] > inFlight[c]
         => \/ notifs'[c] > notifs[c]
            \/ \E t \in timers : t.cal = c /\ t.left = 0 /\ t \notin timers'
C16_WholeCalendarFailure == [](C16_FetchFailureResult) /\ [][C16_NoRerun]_vars

\* a run the coalescer started has failed at the fetch and been taken back,
\* nothing is scheduled, and the calendar has notifications yet to come
C16_Witness ==
  \E c \in Calendars :
    /\ prev.cal = c /\ prev.outcome = "errors" /\ run[c].pc = "idle"
    /\ target = {} /\ timers = {} /\ inFlight[c] = 0
    /\ notifs[c] = 1 /\ quota[c] > 1

\* C17 (reconciliation wrapped by the retry policy): a run the coalescer
\* started and whose listing of the source failed with a retryable status
\* (503) is given up only after the listing has been asked for again.
C17_ListingRetried ==
  \A c \in Calendars :
    (inFlight[c] > 0 /\ run[c].pc = "return" /\ run[c].fetchError = "503")
      => run[c].fetchCalls > 1

\* C18 (only the first notification of a burst sets the first-notification
\* time): a debouncedSync call for a calendar whose handle is recorded leaves
\* firstWebhookTime of that calendar as it was, whatever time has passed; a
\* call for a calendar with no handle sets it to the time of the call.
C18_Step ==
  \A c \in Calendars :
    notifs'[c] > notifs[c] =>
      /\ syncTimers[c] # NoTimer => firstWebhookTime'[c] = firstWebhookTime[c]
      /\ syncTimers[c] = NoTimer => firstWebhookTime'[c] = 0
C19_Step ==
  \A c \in Calendars :
    inFlight'[c] < inFlight[c] =>
      /\ syncTimers'[c] = NoTimer /\ firstWebhookTime'[c] = NoTime
      /\ inFlight'[c] = inFlight[c] - 1
      /\ timers' = timers
      /\ \A d \in Calendars \ {c} :
           /\ syncTimers'[d] = syncTimers[d]
           /\ firstWebhookTime'[d] = firstWebhookTime[d]
           /\ inFlight'[d] = inFlight[d]
C19_ClearedOnSettle == [][C19_Step]_vars

\* a run has just rejected while a later notification's timeout was still
\* scheduled: the entries are gone and the timeout stands
C19_Witness ==
  \E c \in Calendars :
    /\ settled = "rejected" /\ inFlight[c] = 0
    /\ syncTimers[c] = NoTimer /\ firstWebhookTime[c] = NoTime
    /\ \E t \in timers : t.cal = c

\* C20 (DebounceState exists only while a reconciliation is pending): while a
\* run the coalescer started for a calendar is executing, the calendar has
\* neither a recorded handle nor a first-notification time.
C20_DestroyedAtStart ==
  \A c \in Calendars :
    inFlight[c] > 0 => syncTimers[c] = NoTimer /\ firstWebhookTime[c] = NoTime

\* C37 (the duplicate check fails open): when the listing of the target inside
\* checkForDuplicateEvent fails, the check answers 'no duplicate', the run
\* records no error for it and goes on to insert the placeholder of the event.
C37_Step ==
  \A c \in Calendars : \A ev \in Checked(c) :
    ~chk'[c].listOk =>
      /\ ~chk'[c].dup
      /\ run'[c].pc = "insert" /\ run'[c].cur = ev
      /\ run'[c].res = run[c].res

C37_FailsOpen == [][C37_Step]_vars

\* a run in which a listing failed and no error was recorded has created a
\* placeholder identical to one that existed
C37_Witness ==
  \E c \in Calendars :
    /\ run[c].listFailed /\ run[c].res.errors = <<>> /\ run[c].res.created > 0
    /\ \E p, q \in target :
         /\ p.id # q.id /\ p.srcCal = c /\ q.srcCal = c
         /\ p.srcEvent = q.srcEvent /\ p.kind = q.kind
         /\ p.start = q.start /\ p.end = q.end

\* C38 (containment looks at the presence of provenance only): with the
\* listing answered, a timed source event is skipped exactly when some event of
\* the target that carries provenance, of whatever source calendar and source
\* event, spans a window containing its own; an event without provenance makes
\* no difference.
C38_Step ==
  \A c \in Calendars : \A ev \in Checked(c) :
    (ev.kind = "timed" /\ chk'[c].listOk) =>
      (chk'[c].dup <=>
         \E p \in target : /\ p.srcCal # NoCal /\ p.kind = "timed"
                            /\ p.start <= ev.start /\ p.end >= ev.end)

C38_ProvenancePresence == [][C38_Step]_vars

\* with an event without provenance spanning every window, the only timed
\* event of calendar "private" was skipped on account of the placeholder of
\* the other source calendar
C38_Witness ==
  /\ target = {Native, Foreign}
  /\ run["private"].pc = "loop" /\ run["private"].queue = {}
  /\ run["private"].skipped = 1 /\ ~run["private"].listFailed
  /\ \E e \in BatchIds : /\ source["private"][e].kind = "timed"
                          /\ source["private"][e].summary = "meeting"
  /\ \E e \in BatchIds : source["private"][e].kind = "allday"

\* C32 (at most one pending timer per resource): each calendar has at most
\* one scheduled timeout, and it is the one whose handle syncTimers records.
C32_OnePendingTimer ==
  \A c \in Calendars :
    /\ Cardinality({t \in timers : t.cal = c}) <= 1
    /\ \A t \in timers : t.cal = c => t.id = syncTimers[c]

\* C33 (reschedule rule): a notification for a calendar whose handle is
\* recorded, elapsed being the age of its first-notification time, cancels
\* the recorded timeout; if elapsed >= MAX_WAIT_TIME it starts a run and
\* schedules nothing; otherwise it schedules one timeout of delay
\* min(DEBOUNCE_DELAY, MAX_WAIT_TIME - elapsed), which is positive and at
\* most DEBOUNCE_DELAY, records its handle and starts no run.
C33_Step ==
  \A c \in Calendars :
    (notifs'[c] > notifs[c] /\ syncTimers[c] # NoTimer) =>
      LET elapsed == firstWebhookTime[c]
          kept == timers \ Pending(c)
      IN IF elapsed >= MAX_WAIT_TIME
         THEN /\ timers' = kept
              /\ inFlight'[c] = inFlight[c] + 1
              /\ syncTimers'[c] = syncTimers[c]
         ELSE /\ inFlight'[c] = inFlight[c]
              /\ \E t \in timers' \ kept :
                   /\ timers' = kept \cup {t}
                   /\ t.cal = c /\ t.id = syncTimers'[c]
                   /\ t.left = Min(DEBOUNCE_DELAY, MAX_WAIT_TIME - elapsed)
                   /\ t.left > 0 /\ t.left <= DEBOUNCE_DELAY
C33_RescheduleRule == [][C33_Step]_vars

\* a later notification of a burst was given less than the whole window: its
\* timeout ends MAX_WAIT_TIME after the first notification
C33_Witness ==
  \E c \in Calendars :
    /\ burstN[c] >= 2 /\ firstWebhookTime[c] # NoTime
    /\ \E t \in Pending(c) :
         /\ t.left > 0
         /\ t.left + firstWebhookTime[c] = MAX_WAIT_TIME
         /\ firstWebhookTime[c] > MAX_WAIT_TIME - DEBOUNCE_DELAY

\* C35 (no accepted notification is lost): whenever a notification for a
\* calendar is not yet followed by the start of a run for that calendar, a
\* run for it starts later on.
C35_NoNotificationLost ==
  \A c \in Calendars : (burstStart[c] # NoTime) ~> (burstStart[c] = NoTime)

\* a notification arrived while the run of an earlier one was in flight, and
\* every notification has since been followed by the start of a run
C35_Witness ==
  \E c \in Calendars :
    /\ everLate[c] /\ notifs[c] = 2 /\ burstStart[c] = NoTime
    /\ timers = {} /\ inFlight[c] = 0

(***************************************************************************)
(* Properties of the webhook endpoint                                      *)
(***************************************************************************)
\* the request had the wrong token, lacked the channel id or the resource
\* state, carried a resource URI without a calendar id, or named a calendar
\* that is not a source calendar
Unrecognized(r) ==
  \/ Token(r) # WEBHOOK_SECRET
  \/ r.chan = "none" \/ r.state = "none"
  \/ ExtractCalendarIdFromResourceUri(r.uri) \notin Calendars

\* C21 (unauthenticated or unrecognized notifications have no side effects):
\* the step that handles such a request does not call debouncedSync, leaves
\* every entry of the coalescer (timeouts, handles, first-notification times,
\* runs in flight) as it was and starts no run of the engine.
C21_Step ==
  (inbox' # inbox /\ Unrecognized(Head(inbox))) =>
     /\ hres'.called = NoCal
     /\ UNCHANGED debounceVars
     /\ UNCHANGED syncVars
C21_NoSideEffects == [][C21_Step]_vars

\* an unrecognized request has been answered while a timeout was pending
C21_Witness ==
  /\ hres.status \in {400, 401} /\ hres.called = NoCal
  /\ inbox = <<>>
  /\ \E c \in Calendars : Pending(c) # {} /\ notifs[c] = 1

\* C22 (only a changed notification triggers coalescing): an authenticated
\* request with both headers and resource state 'sync' is answered 200 and
\* calls nothing; debouncedSync is called only for resource state 'exists'
\* and a source calendar named by the resource URI.
C22_Step ==
  inbox' # inbox =>
    LET r == Head(inbox)
    IN /\ (Token(r) = WEBHOOK_SECRET /\ r.chan # "none" /\ r.state = "sync")
            => /\ hres'.status = 200 /\ hres'.called = NoCal
               /\ UNCHANGED debounceVars
       /\ \A c \in Calendars :
            (hres'.called = c \/ notifs'[c] > notifs[c])
              => /\ r.state = "exists"
                 /\ ExtractCalendarIdFromResourceUri(r.uri) = c
C23_Step ==
  \A c \in Calendars :
    (inbox' # inbox /\ hres'.called = c) =>
      /\ hres'.status = 200
      /\ inFlight'[c] >= inFlight[c]
      /\ (syncTimers[c] # NoTimer /\ firstWebhookTime[c] >= MAX_WAIT_TIME)
           => inFlight'[c] = inFlight[c] + 1
C23_AcknowledgedFirst == [][C23_Step]_vars

\* the notification answered last hit the ceiling and started a run
C23_Witness ==
  \E c \in Calendars :
    /\ hres.called = c /\ hres.status = 200 /\ hres.ceiling
    /\ inFlight[c] > 0

\* C36 (resource independence): a debouncedSync call for a calendar, the
\* firing of its timeout and the settling of its run leave the recorded timer
\* handle, the pending timeouts and the first-notification time of every other
\* calendar as they were.
C36_Step ==
  \A a \in Calendars :
    (DebouncedSync(a) \/ TimerFire(a) \/ ExecuteSyncFinally(a)) =>
      \A b \in Calendars \ {a} :
        /\ syncTimers'[b] = syncTimers[b]
        /\ firstWebhookTime'[b] = firstWebhookTime[b]
        /\ {t \in timers' : t.cal = b} = {t \in timers : t.cal = b}
        /\ inFlight'[b] = inFlight[b]

C36_Independent == [][C36_Step]_vars

\* runs for two calendars are in flight at the same time
C36_Witness ==
  \E a, b \in Calendars : a # b /\ inFlight[a] > 0 /\ inFlight[b] > 0

(***************************************************************************)
(* Properties of the webhook channel manager                               *)
(***************************************************************************)

\* C5 (renewal safety): after a refreshWebhook whose events.watch failed, the
\* channel record of the calendar is the one the renewal found, and the channel
\* it names, if it was alive at the provider, still is.
C5_RenewalSafety ==
  \A c \in Calendars :
    hookLast[c].op = "refresh" /\ ~hookLast[c].watchOk =>
      /\ stored[c] = hookLast[c].before
      /\ hookLast[c].oldLive =>
           \E ch \in live : ch.cal = c /\ ch.id = hookLast[c].before.id

\* C24 (at most one active channel per source calendar): the provider holds
\* at most one live channel of each source calendar, and it is the channel of
\* the persisted record.
C24_OneActiveChannel ==
  \A c \in Calendars :
    /\ Cardinality({ch \in live : ch.cal = c}) <= 1
    /\ \A ch \in live : ch.cal = c => ch.id = stored[c].id

C34_StopAfterCreate ==
  \A c \in Calendars :
    (/\ hookLast[c].op = "refresh" /\ hookLast[c].oldLive
     /\ ~\E ch \in live : ch.id = hookLast[c].before.id)
      => /\ hookLast[c].watchOk
         /\ stored[c] # NoChannel /\ stored[c].id # hookLast[c].before.id
         /\ \E ch \in live : ch.cal = c /\ ch.id = stored[c].id

\* C39 (refreshExpiredWebhooks isolates calendars): a sweep writes one results
\* entry for every source calendar; whatever happened to the calendars before
\* it, a calendar whose record was read is renewed when the record is missing
\* or within the margin and kept otherwise; the two counters count the
\* entries, each calendar in at most one of them.
C39_Step ==
  (\E c \in Calendars :
     /\ hookLast'[c] # hookLast[c]
     /\ hookLast'[c].report # "none" \/ hookLast'[c].op = "keep")
    => \A c \in Calendars :
         LET l == hookLast'[c]
             due == l.before = NoChannel \/ l.before.left <= Threshold
             nRefreshed == Cardinality({d \in Calendars :
                                         hookLast'[d].report = "refreshed"})
             nFailed == Cardinality({d \in Calendars :
                                      hookLast'[d].report \in {"failed", "threw"}})
         IN /\ l.report \in {"refreshed", "failed", "threw", "kept"}
            /\ l.report \in {"refreshed", "failed"} => due /\ "watch" \in l.calls
            /\ l.report = "kept" => ~due /\ l.calls = {}
            /\ l.report = "refreshed" =>
                 stored'[c] # NoChannel /\ stored'[c] # l.before
            /\ l.refreshed = nRefreshed /\ l.failed = nFailed
            /\ l.refreshed + l.failed <= Len(SourceCalendars)

C39_Isolated == [][C39_Step]_vars

\* the sweep renewed the channel of the second calendar after the storage
\* threw for the first
C39_Witness ==
  /\ hookLast[SourceCalendars[1]].report = "threw"
  /\ hookLast[SourceCalendars[2]].report = "refreshed"
  /\ hookLast[SourceCalendars[2]].failed = 1
  /\ hookLast[SourceCalendars[2]].refreshed = 1

(***************************************************************************)
(* Properties of the retry policy                                          *)
(***************************************************************************)

\* C6 (attempt bound): withRetry has invoked the operation at most maxAttempts
\* times, whatever the failures and the retry condition.
C6_AtMostMaxAttempts == calls <= maxAttempts

\* every failure was let through by the caller's condition: four attempts of four
C6_Witness ==
  /\ rpc = "thrown" /\ retryCondition = "always"
  /\ maxAttempts = 4 /\ calls = 4 /\ Len(sleeps) = 3

\* C7 (retry classification): with the default condition, once withRetry has
\* failed after nothing but 429 failures the operation was attempted exactly
\* maxAttempts times; a 404 failure makes withRetry fail at once, and if it is
\* the first failure the operation was attempted once and nothing was slept.
C7_Classification ==
  retryCondition = "default" =>
    /\ onlyCode = "429" /\ rpc \in {"thrown", "typeError"} =>
         calls = maxAttempts /\ Len(sleeps) = maxAttempts - 1
    /\ lastError.code = "404" => rpc = "thrown"
    /\ onlyCode = "404" => calls = 1 /\ sleeps = <<>>

\* three attempts of three have failed with 429, with two sleeps in between
C7_Witness ==
  /\ retryCondition = "default" /\ rpc = "thrown" /\ onlyCode = "429"
  /\ maxAttempts = 3 /\ calls = 3 /\ sleeps = <<1000, 2000>>

\* C26 (non-retryable classification): with the default condition, a failure
\* with status 404, 409 or 410, or with status 401 or 403 and no rate-limit or
\* quota message, ends withRetry at once: it is not followed by a sleep or by
\* another attempt.
C26_NonRetryable ==
  (/\ retryCondition = "default"
   /\ \/ lastError.code \in {"404", "409", "410"}
      \/ lastError.code \in {"401", "403"} /\ lastError.msg # "quota")
    => rpc = "thrown"

\* the status codes and messages the classification is to retry: rate limit
\* or quota, 429 and the server errors, and the network errors, with or
\* without a code field
Transient(e) ==
  \/ e.code \in {"403", "429"} /\ e.msg = "quota"
  \/ e.code \in {"429", "500", "502", "503", "504"}
  \/ e.code \in {"none", "ECONNRESET"} /\ e.msg = "network"

\* C27 (retryable classification): with the default condition, withRetry
\* gives up on a transient failure only once the operation has been attempted
\* maxAttempts times.
C27_Retryable ==
  (retryCondition = "default" /\ rpc = "thrown" /\ Transient(lastError))
    => calls = maxAttempts

\* C28 (backoff schedule): the k-th sleep of a call lasts
\* min(BaseDelay * BackoffMultiplier^(k-1), MaxDelay); an attempt is about to
\* be made only when every earlier attempt was followed by one sleep, and
\* once withRetry has returned or failed there is one sleep less than
\* attempts: none before the first attempt, none after a success, after the
\* last attempt or after a failure the condition refuses.
C28_BackoffSchedule ==
  /\ \A k \in 1..Len(sleeps) :
       sleeps[k] = Min(BaseDelay * Pow(BackoffMultiplier, k - 1), MaxDelay)
  /\ rpc \in {"entry", "idle"} => sleeps = <<>> /\ calls = 0
  /\ rpc = "call" => Len(sleeps) = calls
  /\ rpc = "sleep" => Len(sleeps) = calls /\ calls < maxAttempts
  /\ rpc = "returned" => Len(sleeps) = calls - 1
  /\ rpc \in {"thrown", "typeError"} =>
       Len(sleeps) = (IF calls = 0 THEN 0 ELSE calls - 1)

\* six attempts have failed, with the five sleeps of the schedule, the last
\* of them capped
C28_Witness ==
  /\ rpc = "thrown" /\ calls = 6
  /\ sleeps = <<1000, 2000, 4000, 8000, 10000>>

\* C29 (outcome): once withRetry has failed, it has failed with the
\* CalendarSyncError that wraps the error of the last attempt.
C29_WrappedFailure ==
  rpc \in {"thrown", "typeError"} => rpc = "thrown" /\ lastError # NoError

(***************************************************************************)
(* Properties of getCalendarEvents                                         *)
(***************************************************************************)

\* C30 (stale cursor handling terminates): a call of getCalendarEvents lists
\* at most twice, the second time without a cursor after a listing with a
\* cursor was answered with a stale-cursor error; it never sends the request
\* it has just sent again.
C30_OneFallback ==
  /\ Len(flog) <= 2
  /\ \A i \in 1..(Len(flog) - 1) :
       flog[i].cursor # "none" /\ flog[i + 1].cursor = "none"

(***************************************************************************)
(* Properties of createSyncEvent                                           *)
(***************************************************************************)

\* the two events agree in the fields that carry their time
SameTime(a, b) ==
  /\ a.kind = b.kind /\ a.start = b.start /\ a.end = b.end
  /\ a.timeZone = b.timeZone

\* C11 (no content leakage): every placeholder createSyncEvent returns has the
\* fixed busy title, and two source events that differ in nothing but content
\* fields, built for the same calendar at the same instant, give placeholders
\* equal in every field.
C11_NoContentLeak ==
  /\ \A x \in {"A", "B"} : built[x] # NotBuilt => built[x].summary = BusyTitle
  /\ (/\ built["A"] # NotBuilt /\ built["B"] # NotBuilt
      /\ SameTime(srcA, srcB)
      /\ built["A"].extendedProperties.syncedAt
           = built["B"].extendedProperties.syncedAt)
       => built["A"] = built["B"]

\* two events that differ in title, description, location, colour, visibility
\* and attendees have been built into the same placeholder
C11_Witness ==
  /\ built["A"] # NotBuilt /\ built["A"] = built["B"]
  /\ SameTime(srcA, srcB)
  /\ \A f \in ContentFields : srcA[f] # srcB[f]

====
